---- MODULE Spec2Model ----
(***************************************************************************)
(* A model of the data-wrangling code of the SageMaker workshop notebooks: *)
(*   - split_to_train_val_test and get_train_val_dataframes of             *)
(*     tensorflow-workshop/1_tf_image_classification_birds.ipynb;          *)
(*   - the batch result aggregation loop of                                *)
(*     tensorflow-workshop/3_tf_sm_batch_ic.ipynb, and the cells of that   *)
(*     notebook that clean up, run the transform job and download;         *)
(*   - download, show_species, the fine-tuning cells, the validation       *)
(*     prediction loop and test_image_df of the birds notebook;            *)
(*   - the class_id replacement of lab-comprehend/comprehend_dbpedia.ipynb.*)
(*                                                                         *)
(* A DataFrame is a sequence of rows; a row is a record with an "index"    *)
(* field (its pandas index label) and one field per column.  Ratios and    *)
(* fractions are exact rationals (numerator, denominator).  Probabilities  *)
(* are integers in units of 0.0001.                                        *)
(***************************************************************************)
EXTENDS Integers, Sequences, FiniteSets, TLC

VARIABLES
    \* ---- split_to_train_val_test
    df,             \* the table passed in
    label_column,   \* the name of the label column
    splits,         \* the three ratios, in tenths
    labels,         \* the labels the for loop has still to visit
    train_df, val_df, test_df,   \* the accumulators
    split_pc,       \* "idle", "call", "loop", "done"
    split_ret,      \* the returned triple, <<>> before the return
    \* ---- get_train_val_dataframes
    SAMPLE_ONLY,    \* the notebook parameter
    image_file,     \* lines of IMAGE_FILE: [image_pretty_name, image_file_name]
    label_file,     \* lines of LABEL_FILE: [image_pretty_name, orig_class_id]
    full_df,        \* the merged, filtered and labelled table
    birds_pc,       \* "idle", "start", "split", "done"
    birds_ret,      \* the returned triple, <<>> before the return
    \* ---- the batch result aggregation loop
    class_name_list,  \* the sorted class names of the classifier
    found,          \* how many entries glob found
    remaining,      \* how many of them the for loop has still to visit
    entry,          \* the entry of the current (last) iteration
    total, correct, predicted, actual,   \* the tallies
    printed,        \* what the except branch printed, oldest first
    visited,        \* per visited entry: its class subfolder and whether it raised
    batch_pc,       \* "idle", "loop", "done"
    \* ---- one record per further component, [pc |-> "idle"] while unused
    run,            \* a run of the cells of the batch notebook
    train,          \* the model built and fine-tuned by the birds notebook
    show,           \* a call of show_species
    dl,             \* calls of download and the files of the directory
    dbp,            \* the class_id replacement of the comprehend notebook
    tdf,            \* a call of test_image_df
    vl              \* the validation prediction loop

splitVars == <<df, label_column, splits, labels, train_df, val_df, test_df,
               split_pc, split_ret>>
birdVars  == <<SAMPLE_ONLY, image_file, label_file, full_df, birds_pc, birds_ret>>
batchVars == <<class_name_list, found, remaining, entry, total, correct,
               predicted, actual, printed, visited, batch_pc>>
laterVars == <<run, train, show, dl, dbp, tdf, vl>>
vars      == <<splitVars, birdVars, batchVars, laterVars>>

Unused == [pc |-> "idle"]

LaterIdle ==
    /\ run = Unused
    /\ train = Unused
    /\ show = Unused
    /\ dl = Unused
    /\ dbp = Unused
    /\ tdf = Unused
    /\ vl = Unused

-----------------------------------------------------------------------------
(* Bounds of the model *)

\* the largest number of rows of a table passed directly to the splitter
MaxRows == 3

\* the largest number of lines of the vendor's image list
MaxImages == 3

\* the largest number of batch result files glob finds
MaxEntries == 2

-----------------------------------------------------------------------------
(* Sequence helpers *)

Range(s) == {s[k] : k \in 1..Len(s)}

\* all sequences over S of length 0..n
SeqsUpTo(S, n) == UNION {[1..k -> S] : k \in 0..n}

\* the arrangements of n distinct positions out of 1..m
Arrangements(m, n) ==
    {p \in [1..n -> 1..m] : \A a, b \in 1..n : a # b => p[a] # p[b]}

-----------------------------------------------------------------------------
(* pandas primitives used by the notebooks *)

\* Python 3 round() of the rational num/den (num >= 0, den > 0): to the
\* nearest integer, a tie to the even neighbour
PyRound(num, den) ==
    LET q == num \div den
        r == num % den
    IN  IF 2 * r < den THEN q
        ELSE IF 2 * r > den THEN q + 1
        ELSE IF q % 2 = 0 THEN q ELSE q + 1

\* Series.unique(): the distinct values of a column, in order of first appearance
RECURSIVE UniqueFrom(_, _, _)
UniqueFrom(d, col, seen) ==
    IF d = <<>> THEN <<>>
    ELSE IF Head(d)[col] \in seen THEN UniqueFrom(Tail(d), col, seen)
    ELSE <<Head(d)[col]>> \o UniqueFrom(Tail(d), col, seen \cup {Head(d)[col]})

Unique(d, col) == UniqueFrom(d, col, {})

\* d[d[col] == v]
Where(d, col, v) == SelectSeq(d, LAMBDA r : r[col] = v)

\* DataFrame.sample(frac=num/den): the possible results.  n = round(frac * len)
\* rows are drawn without replacement, in any order.
Sample(d, num, den) ==
    LET n == PyRound(num * Len(d), den)
    IN  {[k \in 1..n |-> d[p[k]]] : p \in Arrangements(Len(d), n)}

\* DataFrame.drop(index_labels) that forgets to drop
DropNothing(d, other) == d

\* DataFrame.drop(other.index): every row whose index label is one of other's
\* index labels is removed
Drop(d, other) ==
    LET gone == {other[k].index : k \in 1..Len(other)}
    IN  SelectSeq(d, LAMBDA r : r.index \notin gone)

-----------------------------------------------------------------------------
(* split_to_train_val_test *)

\* the label values and index labels of the tables passed directly
LabelValues == {"a", "b"}
IndexLabels == 0..(MaxRows - 1)
SplitChoices == {<<7, 2, 1>>, <<5, 2, 3>>, <<4, 3, 3>>}

\* a table: rows carry their position in the table as column "row"
Tables ==
    {[k \in 1..Len(c) |-> [row |-> k, index |-> c[k][1], label |-> c[k][2]]] :
        c \in SeqsUpTo(IndexLabels \X LabelValues, MaxRows)}

\* one iteration of the for loop for label lbl: the possible
\* (lbl_train_df, lbl_val_df, lbl_test_df)
SplitOneLabel(d, col, sp, lbl) ==
    LET lbl_df == Where(d, col, lbl)
    IN  UNION { UNION { { <<tr, Drop(Drop(lbl_df, tr), te), te>> } :
                    te \in Sample(Drop(lbl_df, tr), sp[3], sp[2] + sp[3]) } :
            tr \in Sample(lbl_df, sp[1], 10) }

SplitCallInit(d, col, sp) ==
    /\ df = d
    /\ label_column = col
    /\ splits = sp
    /\ labels = <<>>
    /\ train_df = <<>>
    /\ val_df = <<>>
    /\ test_df = <<>>
    /\ split_pc = "call"
    /\ split_ret = <<>>

SplitIdle ==
    /\ df = <<>>
    /\ label_column = ""
    /\ splits = <<>>
    /\ labels = <<>>
    /\ train_df = <<>>
    /\ val_df = <<>>
    /\ test_df = <<>>
    /\ split_pc = "idle"
    /\ split_ret = <<>>

\* lines 233-235
SplitBegin ==
    /\ split_pc = "call"
    /\ labels' = Unique(df, label_column)
    /\ train_df' = <<>>
    /\ val_df' = <<>>
    /\ test_df' = <<>>
    /\ split_pc' = "loop"
    /\ UNCHANGED <<df, label_column, splits, split_ret>>

\* lines 236-252
SplitLabel ==
    /\ split_pc = "loop"
    /\ labels # <<>>
    /\ \E t \in SplitOneLabel(df, label_column, splits, Head(labels)) :
          /\ train_df' = train_df \o t[1]
          /\ val_df' = val_df \o t[2]
          /\ test_df' = test_df \o t[3]
    /\ labels' = Tail(labels)
    /\ UNCHANGED <<df, label_column, splits, split_pc, split_ret>>

\* line 255
SplitReturn ==
    /\ split_pc = "loop"
    /\ labels = <<>>
    /\ \E tr \in Sample(train_df, 1, 1), va \in Sample(val_df, 1, 1),
          te \in Sample(test_df, 1, 1) :
          split_ret' = <<tr, va, te>>
    /\ split_pc' = "done"
    /\ UNCHANGED <<df, label_column, splits, labels, train_df, val_df, test_df>>

-----------------------------------------------------------------------------
(* Notebook parameters of the bird notebook *)

\* the species of the handful used when SAMPLE_ONLY
SampleClasses == <<13, 17>>

\* range(200): the loop that lists every species
NumSpecies == 200

\* CLASSES, as the parameter cell leaves it
CLASSES(sample_only) ==
    IF sample_only THEN SampleClasses ELSE [c \in 1..NumSpecies |-> (c - 1) + 1]

SPLIT_RATIOS == <<7, 2, 1>>

\* a file name is its list of path segments (what split('/') gives)
EXCLUDE_IMAGE_LIST == {<<"087.Mallard", "Mallard_0130_76836.jpg">>}

-----------------------------------------------------------------------------
(* get_train_val_dataframes *)

\* the file names and class numbers the vendor files may hold
ImageNames == {<<"087.Mallard", "Mallard_0130_76836.jpg">>,
               <<"087.Mallard", "Mallard_0002_77092.jpg">>,
               <<"017.Cardinal", "Cardinal_0001_17057.jpg">>}
ClassNumbers == {13, 17, 87}

\* str(i) for i >= 0
Digit == <<"0", "1", "2", "3", "4", "5", "6", "7", "8", "9">>
RECURSIVE Str(_)
Str(i) == IF i < 10 THEN Digit[i + 1] ELSE Str(i \div 10) \o Digit[(i % 10) + 1]

\* reset_index(drop=True): the index labels become 0..len-1
ResetIndex(d) == [k \in 1..Len(d) |-> [d[k] EXCEPT !.index = k - 1]]

\* pd.read_csv of IMAGE_FILE / LABEL_FILE: one row per line, index 0..len-1
ReadCsv(lines) == [k \in 1..Len(lines) |-> [index |-> k - 1] @@ lines[k]]

\* the exclusion filter that keeps everything
KeepAll(d) == d

\* full_df[~full_df.image_file_name.isin(EXCLUDE_IMAGE_LIST)]
ExcludeImages(d) ==
    SelectSeq(d, LAMBDA r : r.image_file_name \notin EXCLUDE_IMAGE_LIST)

\* pd.merge(left, right, on='image_pretty_name'): the inner join, left order,
\* a fresh index
RECURSIVE MergeRows(_, _)
MergeRows(left, right) ==
    IF left = <<>> THEN <<>>
    ELSE LET l == Head(left)
             m == SelectSeq(right, LAMBDA r : r.image_pretty_name = l.image_pretty_name)
         IN  [k \in 1..Len(m) |->
                 [index |-> 0,
                  image_pretty_name |-> l.image_pretty_name,
                  image_file_name |-> l.image_file_name,
                  orig_class_id |-> m[k].orig_class_id]]
             \o MergeRows(Tail(left), right)

Merge(left, right) == ResetIndex(MergeRows(left, right))

\* the species filter turned round: keeps the rows outside CLASSES
SampleFilterOthers(d, sample_only) ==
    IF sample_only
    THEN SelectSeq(d, LAMBDA r : r.orig_class_id \notin Range(CLASSES(sample_only)))
    ELSE d

\* lines 271-274
SampleFilter(d, sample_only) ==
    IF sample_only
    THEN SelectSeq(d, LAMBDA r : r.orig_class_id \in Range(CLASSES(sample_only)))
    ELSE d

\* sorted(unique_classes)
RECURSIVE SortedSeq(_)
SortedSeq(S) ==
    IF S = {} THEN <<>>
    ELSE LET m == CHOOSE x \in S : \A y \in S : x <= y
         IN  <<m>> \o SortedSeq(S \ {m})

\* the numbering that starts at 0
IdZeroBased(d) ==
    LET sorted_unique_classes == SortedSeq({d[k].orig_class_id : k \in 1..Len(d)})
    IN  [k \in 1..Len(sorted_unique_classes) |->
            <<sorted_unique_classes[k], Str(k - 1)>>]

\* lines 277-283: the pairs (c, str(i)), i = 1, 2, ... over the sorted classes
id_to_one_based(d) ==
    LET sorted_unique_classes == SortedSeq({d[k].orig_class_id : k \in 1..Len(d)})
    IN  [k \in 1..Len(sorted_unique_classes) |->
            <<sorted_unique_classes[k], Str(k)>>]

\* Series.map(dict)
MapDict(pairs, c) ==
    LET hit == {k \in 1..Len(pairs) : pairs[k][1] = c}
    IN  IF hit = {} THEN "nan" ELSE pairs[CHOOSE k \in hit : TRUE][2]

get_class_name(fn) == fn[1]

\* lines 258-291: full_df as it is passed to the splitter
PrepareFullDf(images, class_labels, sample_only) ==
    LET images_df == ReadCsv(images)
        image_class_labels_df == ReadCsv(class_labels)
        kept == ResetIndex(ExcludeImages(images_df))
        merged == Merge(kept, image_class_labels_df)
        sampled == SampleFilter(merged, sample_only)
        ids == id_to_one_based(sampled)
        labelled == ResetIndex(
            [k \in 1..Len(sampled) |->
                [index |-> sampled[k].index,
                 image_pretty_name |-> sampled[k].image_pretty_name,
                 image_file_name |-> sampled[k].image_file_name,
                 orig_class_id |-> sampled[k].orig_class_id,
                 class_id |-> MapDict(ids, sampled[k].orig_class_id)]])
    IN  [k \in 1..Len(labelled) |->
            [index |-> labelled[k].index,
             image_file_name |-> labelled[k].image_file_name,
             orig_class_id |-> labelled[k].orig_class_id,
             class_id |-> labelled[k].class_id,
             class_name |-> get_class_name(labelled[k].image_file_name)]]

BirdsIdle ==
    /\ SAMPLE_ONLY = TRUE
    /\ image_file = <<>>
    /\ label_file = <<>>
    /\ full_df = <<>>
    /\ birds_pc = "idle"
    /\ birds_ret = <<>>

\* the vendor files: line k of each is about image k
VendorFiles ==
    {c \in SeqsUpTo(ImageNames \X ClassNumbers, MaxImages) : TRUE}

BirdsCallInit ==
    /\ SAMPLE_ONLY \in BOOLEAN
    /\ \E c \in VendorFiles :
          /\ image_file = [k \in 1..Len(c) |->
                 [image_pretty_name |-> k, image_file_name |-> c[k][1]]]
          /\ label_file = [k \in 1..Len(c) |->
                 [image_pretty_name |-> k, orig_class_id |-> c[k][2]]]
    /\ full_df = <<>>
    /\ birds_pc = "start"
    /\ birds_ret = <<>>

\* lines 258-298: build full_df and call the splitter
BirdsPrepare ==
    /\ birds_pc = "start"
    /\ full_df' = PrepareFullDf(image_file, label_file, SAMPLE_ONLY)
    /\ birds_pc' = "split"
    /\ df' = full_df'
    /\ label_column' = "class_id"
    /\ splits' = SPLIT_RATIOS
    /\ split_pc' = "call"
    /\ UNCHANGED <<labels, train_df, val_df, test_df, split_ret>>
    /\ UNCHANGED <<SAMPLE_ONLY, image_file, label_file, birds_ret>>

\* lines 298-304: the splitter has returned
BirdsReturn ==
    /\ birds_pc = "split"
    /\ split_pc = "done"
    /\ birds_ret' = split_ret
    /\ birds_pc' = "done"
    /\ UNCHANGED <<SAMPLE_ONLY, image_file, label_file, full_df>>
    /\ UNCHANGED splitVars

-----------------------------------------------------------------------------
(* The batch notebook: class_name_list *)

\* lines of CLASSES_FILE: the class number and the class name, whose first
\* three characters are the zero-padded class number
ClassesFile == <<[class_number |-> 13, class_id |-> "013.Bobolink"],
                 [class_number |-> 87, class_id |-> "087.Mallard"],
                 [class_number |-> 17, class_id |-> "017.Cardinal"]>>

\* sorted(names): the names start with their zero-padded class number, so the
\* lexicographic order of the names is the order of the class numbers
SortedNames(rows) ==
    LET nums == SortedSeq({rows[k].class_number : k \in 1..Len(rows)})
    IN  [k \in 1..Len(nums) |->
            (CHOOSE r \in Range(rows) : r.class_number = nums[k]).class_id]

\* lines 72-83 of the batch notebook
ClassNameList(sample_only) ==
    LET classes_df == SelectSeq(ClassesFile,
                          LAMBDA r : r.class_number \in Range(CLASSES(sample_only)))
    IN  SortedNames(classes_df)

-----------------------------------------------------------------------------
(* The batch result aggregation loop *)

\* probabilities, in units of 0.0001; none is a tie of the rounding to 0.001
ProbValues == {1000, 4996, 5004}
ProbVectors == [1..2 -> ProbValues]

\* what a result file may hold: no JSON at all, a JSON object without the
\* 'predictions' key, or one with a list of 0..2 probability vectors
FileContents ==
    {[json |-> FALSE, obj |-> << >>]}
    \cup {[json |-> TRUE, obj |-> [error |-> "unsupported"]]}
    \cup {[json |-> TRUE, obj |-> [predictions |-> p]] : p \in SeqsUpTo(ProbVectors, 2)}

\* the class subfolders found under batch_predictions/
ResultDirs == {"017.Cardinal", "087.Mallard"}

\* an entry: the path's segments (what split('/') gives) and the file's content
Entries ==
    {[path |-> <<"batch_predictions", d, "image.jpg.out">>, content |-> c] :
        d \in ResultDirs, c \in FileContents}

NoEntry == [path |-> << >>, content |-> [json |-> FALSE, obj |-> << >>]]

\* list.index that counts from one
ListIndexOneBased(lst, x) == CHOOSE k \in 1..Len(lst) : lst[k] = x

\* list.index(x) for x in the list: the first position, from zero
ListIndex(lst, x) ==
    (CHOOSE k \in 1..Len(lst) : lst[k] = x /\ \A j \in 1..(k - 1) : lst[j] # x) - 1

\* float('%.3f' % item): the nearest multiple of 0.001
Round3(item) == 10 * ((item + 5) \div 10)

RECURSIVE Flatten(_)
Flatten(lists) ==
    IF lists = <<>> THEN <<>> ELSE Head(lists) \o Flatten(Tail(lists))

\* line 358
Results(jstr) ==
    LET flat == Flatten(jstr.predictions)
    IN  [k \in 1..Len(flat) |-> Round3(flat[k])]

\* np.argmax of a non-empty array: the first position of the maximum, from zero
ArgMax(a) ==
    (CHOOSE k \in 1..Len(a) :
        /\ \A j \in 1..Len(a) : a[j] <= a[k]
        /\ \A j \in 1..(k - 1) : a[j] < a[k]) - 1

Raise(st, e) == [st EXCEPT !.printed = Append(@, e)]

\* the try body with total counted only for a correct prediction
TryBodyTotalInsideIf(e, cnl, st) ==
    LET actual_label == e.path[2]
    IN  IF actual_label \notin Range(cnl) \/ ~e.content.json
           \/ "predictions" \notin DOMAIN e.content.obj
           \/ Results(e.content.obj) = <<>>
           \/ ArgMax(Results(e.content.obj)) >= Len(cnl)
        THEN Raise(st, "Exception")
        ELSE LET class_index == ArgMax(Results(e.content.obj))
                 is_correct == cnl[class_index + 1] = actual_label
             IN  [st EXCEPT !.predicted = Append(@, class_index),
                            !.actual = Append(@, ListIndex(cnl, actual_label)),
                            !.correct = IF is_correct THEN @ + 1 ELSE @,
                            !.total = IF is_correct THEN @ + 1 ELSE @]

\* the try body with predicted.append moved before the class name lookup
TryBodyAppendEarly(e, cnl, st) ==
    LET actual_label == e.path[2]
    IN  IF actual_label \notin Range(cnl) \/ ~e.content.json
           \/ "predictions" \notin DOMAIN e.content.obj
           \/ Results(e.content.obj) = <<>>
        THEN Raise(st, "Exception")
        ELSE LET class_index == ArgMax(Results(e.content.obj))
                 st1 == [st EXCEPT !.predicted = Append(@, class_index)]
             IN  IF class_index >= Len(cnl) THEN Raise(st1, "IndexError")
                 ELSE LET is_correct == cnl[class_index + 1] = actual_label
                      IN  [st1 EXCEPT !.actual = Append(@, ListIndex(cnl, actual_label)),
                                      !.correct = IF is_correct THEN @ + 1 ELSE @,
                                      !.total = @ + 1]

\* lines 353-369: one iteration on entry e from the tallies st; a statement
\* that raises leaves the try body for the except branch, which prints
TryBody(e, cnl, st) ==
    LET actual_label == e.path[2]
    IN  IF actual_label \notin Range(cnl)
        THEN Raise(st, "ValueError")                      \* line 355
        ELSE
        LET actual_index == ListIndex(cnl, actual_label)
        IN  IF ~e.content.json
            THEN Raise(st, "JSONDecodeError")             \* line 357
            ELSE
            LET jstr == e.content.obj
            IN  IF "predictions" \notin DOMAIN jstr
                THEN Raise(st, "KeyError")                \* line 358
                ELSE
                LET results == Results(jstr)
                IN  IF results = <<>>
                    THEN Raise(st, "ValueError")          \* line 359
                    ELSE
                    LET class_index == ArgMax(results)
                    IN  IF class_index >= Len(cnl)
                        THEN Raise(st, "IndexError")      \* line 360
                        ELSE
                        LET predicted_label == cnl[class_index + 1]
                            is_correct == predicted_label = actual_label
                        IN  [st EXCEPT
                                !.predicted = Append(@, class_index),
                                !.actual = Append(@, actual_index),
                                !.correct = IF is_correct THEN @ + 1 ELSE @,
                                !.total = @ + 1]

BatchIdle ==
    /\ class_name_list = <<>>
    /\ found = 0
    /\ remaining = 0
    /\ entry = NoEntry
    /\ total = 0
    /\ correct = 0
    /\ predicted = <<>>
    /\ actual = <<>>
    /\ printed = <<>>
    /\ visited = <<>>
    /\ batch_pc = "idle"

\* lines 72-83 and 346-352: the state when the for loop starts
BatchLoopInit ==
    /\ \E sample_only \in BOOLEAN : class_name_list = ClassNameList(sample_only)
    /\ found \in 0..MaxEntries
    /\ remaining = found
    /\ entry = NoEntry
    /\ total = 0
    /\ correct = 0
    /\ predicted = <<>>
    /\ actual = <<>>
    /\ printed = <<>>
    /\ visited = <<>>
    /\ batch_pc = "loop"

\* lines 352-369: one iteration, on the next entry of the glob
BatchEntry ==
    /\ batch_pc = "loop"
    /\ remaining > 0
    /\ \E e \in Entries :
          LET st == TryBody(e, class_name_list,
                        [total |-> total, correct |-> correct,
                         predicted |-> predicted, actual |-> actual,
                         printed |-> printed])
          IN  /\ entry' = e
              /\ total' = st.total
              /\ correct' = st.correct
              /\ predicted' = st.predicted
              /\ actual' = st.actual
              /\ printed' = st.printed
              /\ visited' = Append(visited, [label |-> e.path[2],
                                             raised |-> st.printed # printed])
    /\ remaining' = remaining - 1
    /\ UNCHANGED <<class_name_list, found, batch_pc>>

\* the glob is exhausted
BatchEnd ==
    /\ batch_pc = "loop"
    /\ remaining = 0
    /\ batch_pc' = "done"
    /\ UNCHANGED <<class_name_list, found, remaining, entry, total, correct,
                   predicted, actual, printed, visited>>

-----------------------------------------------------------------------------
(* The splitter called on an arbitrary table *)

SplitInit ==
    /\ \E d \in Tables, sp \in SplitChoices : SplitCallInit(d, "label", sp)
    /\ BirdsIdle
    /\ BatchIdle
    /\ LaterIdle

SplitNext ==
    \/ SplitBegin /\ UNCHANGED <<birdVars, batchVars, laterVars>>
    \/ SplitLabel /\ UNCHANGED <<birdVars, batchVars, laterVars>>
    \/ SplitReturn /\ UNCHANGED <<birdVars, batchVars, laterVars>>

SpecSplit == SplitInit /\ [][SplitNext]_vars

-----------------------------------------------------------------------------
(* get_train_val_dataframes on arbitrary vendor files *)

BirdsInit ==
    /\ BirdsCallInit
    /\ SplitIdle
    /\ BatchIdle
    /\ LaterIdle

BirdsNext ==
    \/ BirdsPrepare /\ UNCHANGED <<batchVars, laterVars>>
    \/ SplitBegin /\ UNCHANGED <<birdVars, batchVars, laterVars>>
    \/ SplitLabel /\ UNCHANGED <<birdVars, batchVars, laterVars>>
    \/ SplitReturn /\ UNCHANGED <<birdVars, batchVars, laterVars>>
    \/ BirdsReturn /\ UNCHANGED <<batchVars, laterVars>>

SpecBirds == BirdsInit /\ [][BirdsNext]_vars

-----------------------------------------------------------------------------
(* The batch result aggregation loop on arbitrary result files *)

BatchInit ==
    /\ BatchLoopInit
    /\ SplitIdle
    /\ BirdsIdle
    /\ LaterIdle

BatchNext ==
    \/ BatchEntry /\ UNCHANGED <<splitVars, birdVars, laterVars>>
    \/ BatchEnd /\ UNCHANGED <<splitVars, birdVars, laterVars>>

SpecBatch == BatchInit /\ [][BatchNext]_vars

-----------------------------------------------------------------------------
(* A run of the batch notebook: clean up, transform, download, aggregate *)

\* the result files a run can meet: the first two belong to images of the
\* current test input, the third to an image only an earlier run saw
InputKeys == {"017.Cardinal/c1.jpg.out", "013.Bobolink/b1.jpg.out"}
ResultKeys == InputKeys \cup {"087.Mallard/m1.jpg.out"}

\* what the user types at an input() prompt
Answers == {"yes", "no"}

\* a folder maps every key to "none" (absent), "old" (written by an earlier
\* run) or "new" (written by the transform job of this run)
EmptyFolder == [k \in ResultKeys |-> "none"]
PriorFolders == [ResultKeys -> {"none", "old"}]

S3RmKeepsAll(folder) == folder

\* aws s3 rm --recursive $output_data_path
S3Rm(folder) == EmptyFolder

LocalRmKeepsAll(folder) == folder

\* rm -rf ./batch_predictions/*
LocalRm(folder) == EmptyFolder

\* aws s3 cp --recursive: every object of the source lands in the target,
\* replacing a file of the same name; other files of the target stay
S3Cp(source, target) ==
    [k \in ResultKeys |-> IF source[k] # "none" THEN source[k] ELSE target[k]]

WaitReturnsAtOnce(job) == TRUE

\* transformer.wait() returns once the job has completed ...
WaitReturns(job) == job = "Completed"

\* ... and raises when the job has failed
WaitRaises(job) == job = "Failed"

RunStart ==
    \E s \in PriorFolders, l \in PriorFolders :
        run = [pc |-> "s3_cleanup",
               output_data_path |-> s,      \* the objects under the S3 path
               batch_predictions |-> l,     \* the files of the local folder
               prior_s3 |-> s # EmptyFolder,
               prior_local |-> l # EmptyFolder,
               answer_s3 |-> "", answer_local |-> "",
               job |-> "none",              \* status of the transform job
               pending |-> {},              \* inputs the job has yet to write
               submitted |-> 0,             \* transform jobs created
               filepaths |-> {}]            \* the files the aggregation reads

\* if input(...) == 'yes': !aws s3 rm --quiet --recursive $output_data_path
S3Cleanup ==
    /\ run.pc = "s3_cleanup"
    /\ \E a \in Answers :
        run' = [run EXCEPT !.pc = "local_cleanup",
                           !.answer_s3 = a,
                           !.output_data_path =
                               IF a = "yes" THEN S3Rm(@) ELSE @]

\* if input(...) == 'yes': !rm -rf ./batch_predictions/*
LocalCleanup ==
    /\ run.pc = "local_cleanup"
    /\ \E a \in Answers :
        run' = [run EXCEPT !.pc = "transform",
                           !.answer_local = a,
                           !.batch_predictions =
                               IF a = "yes" THEN LocalRm(@) ELSE @]

\* transformer.transform(data = input_data_path, ...): the job is created
Transform ==
    /\ run.pc = "transform"
    /\ run' = [run EXCEPT !.pc = "wait",
                          !.job = "InProgress",
                          !.pending = InputKeys,
                          !.submitted = @ + 1]

\* the service writes the result of one input under the output path
JobWrites ==
    /\ run.pc # "idle"
    /\ run.job = "InProgress"
    /\ \E k \in run.pending :
        run' = [run EXCEPT !.pending = @ \ {k},
                           !.output_data_path = [@ EXCEPT ![k] = "new"]]

JobCompletes ==
    /\ run.pc # "idle"
    /\ run.job = "InProgress"
    /\ run.pending = {}
    /\ run' = [run EXCEPT !.job = "Completed"]

JobFails ==
    /\ run.pc # "idle"
    /\ run.job = "InProgress"
    /\ run' = [run EXCEPT !.job = "Failed"]

\* transformer.wait() returns: the cell is over
WaitReturn ==
    /\ run.pc = "wait"
    /\ WaitReturns(run.job)
    /\ run' = [run EXCEPT !.pc = "download"]

\* transformer.wait() raises: the run stops at this cell
WaitRaise ==
    /\ run.pc = "wait"
    /\ WaitRaises(run.job)
    /\ run' = [run EXCEPT !.pc = "failed"]

\* !aws s3 cp --quiet --recursive $output_data_path ./batch_predictions
Download ==
    /\ run.pc = "download"
    /\ run' = [run EXCEPT !.pc = "aggregate",
                          !.batch_predictions = S3Cp(run.output_data_path, @)]

\* glob.glob('./batch_predictions/*/*') and the loop over its entries
Aggregate ==
    /\ run.pc = "aggregate"
    /\ run' = [run EXCEPT !.pc = "done",
                          !.filepaths = {k \in ResultKeys :
                                            run.batch_predictions[k] # "none"}]

restOfRun == <<splitVars, birdVars, batchVars, train, show, dl, dbp, tdf, vl>>

RunInit ==
    /\ RunStart
    /\ SplitIdle /\ BirdsIdle /\ BatchIdle
    /\ train = Unused /\ show = Unused /\ dl = Unused
    /\ dbp = Unused /\ tdf = Unused /\ vl = Unused

RunNext ==
    \/ S3Cleanup /\ UNCHANGED restOfRun
    \/ LocalCleanup /\ UNCHANGED restOfRun
    \/ Transform /\ UNCHANGED restOfRun
    \/ JobWrites /\ UNCHANGED restOfRun
    \/ JobCompletes /\ UNCHANGED restOfRun
    \/ JobFails /\ UNCHANGED restOfRun
    \/ WaitReturn /\ UNCHANGED restOfRun
    \/ WaitRaise /\ UNCHANGED restOfRun
    \/ Download /\ UNCHANGED restOfRun
    \/ Aggregate /\ UNCHANGED restOfRun

SpecRun == RunInit /\ [][RunNext]_vars

-----------------------------------------------------------------------------
(* build_finetune_model and the two training phases of the birds notebook *)

LAST_FROZEN_LAYER == 20
NUM_EPOCHS == 10
INITIAL_EPOCHS == 2

\* len(base_model.layers) of MobileNetV2 without its top, by Keras release
BaseLayerCounts == {154, 155}

\* the fc_layers and dropout (in tenths) build_finetune_model may be given;
\* the notebook passes [1024] and 0.5
FcLayerChoices == {<<>>, <<1024>>, <<1024, 512>>}
DropoutChoices == {0, 5}

\* a freshly constructed Keras layer is trainable
NewLayer(part, kind) == [part |-> part, kind |-> kind, trainable |-> TRUE]

\* MobileNetV2(weights='imagenet', include_top=False, ...).layers
BaseLayers(n) == [i \in 1..n |-> NewLayer("base", "mobilenet")]

RECURSIVE FcBlocks(_, _)
\* for fc in fc_layers: Dense(fc, relu), then Dropout unless dropout is 0.0
FcBlocks(fc_layers, dropout) ==
    IF fc_layers = <<>> THEN <<>>
    ELSE <<NewLayer("head", "dense")>>
         \o (IF dropout # 0 THEN <<NewLayer("head", "dropout")>> ELSE <<>>)
         \o FcBlocks(Tail(fc_layers), dropout)

\* Flatten, the fully connected blocks and the softmax layer named 'output'
HeadLayers(fc_layers, dropout) ==
    <<NewLayer("head", "flatten")>>
    \o FcBlocks(fc_layers, dropout)
    \o <<NewLayer("head", "output")>>

KeepTrainable(layer) == layer

\* layer.trainable = False
Freeze(layer) == [layer EXCEPT !.trainable = FALSE]

\* layer.trainable = True
Unfreeze(layer) == [layer EXCEPT !.trainable = TRUE]

SliceFromStart(ls, start) == 0..(Len(ls) - 1)

\* the 0-based indices of ls[start:]
SliceFrom(ls, start) == start..(Len(ls) - 1)

\* model.compile: the training function updates the layers trainable now
TrainableIndices(ls) == {i \in 0..(Len(ls) - 1) : ls[i + 1].trainable}

TrainStart ==
    \E n \in BaseLayerCounts, fc \in FcLayerChoices, d \in DropoutChoices :
        train = [pc |-> "freeze",
                 layers |-> BaseLayers(n),   \* base_model.layers, then model.layers
                 fc_layers |-> fc, dropout |-> d,
                 k |-> 0,                    \* 0-based index of the next layer of a loop
                 compiled |-> {},            \* layers the compiled model trains
                 epoch |-> 0]                \* epochs finished by the running fit

\* for layer in base_model.layers: layer.trainable = False
FreezeLayer ==
    /\ train.pc = "freeze"
    /\ train.k < Len(train.layers)
    /\ train' = [train EXCEPT !.layers[train.k + 1] = Freeze(@),
                              !.k = @ + 1]

\* the rest of build_finetune_model: the head is stacked on base_model.output
\* and Model(inputs=base_model.input, outputs=predictions) is returned
BuildHead ==
    /\ train.pc = "freeze"
    /\ train.k = Len(train.layers)
    /\ train' = [train EXCEPT
                    !.pc = "compile1",
                    !.layers = @ \o HeadLayers(train.fc_layers, train.dropout)]

\* model.compile(opt, ...)
Compile1 ==
    /\ train.pc = "compile1"
    /\ train' = [train EXCEPT !.pc = "fit1",
                              !.compiled = TrainableIndices(train.layers),
                              !.epoch = 0]

\* one epoch of model.fit_generator(train_gen, epochs=INITIAL_EPOCHS, ...)
Fit1Epoch ==
    /\ train.pc = "fit1"
    /\ train.epoch < INITIAL_EPOCHS
    /\ train' = [train EXCEPT !.epoch = @ + 1]

Fit1Return ==
    /\ train.pc = "fit1"
    /\ train.epoch = INITIAL_EPOCHS
    /\ train' = [train EXCEPT !.pc = "unfreeze", !.k = LAST_FROZEN_LAYER]

\* for layer in model.layers[LAST_FROZEN_LAYER:]: layer.trainable = True
UnfreezeLayer ==
    /\ train.pc = "unfreeze"
    /\ train.k \in SliceFrom(train.layers, LAST_FROZEN_LAYER)
    /\ train' = [train EXCEPT !.layers[train.k + 1] = Unfreeze(@),
                              !.k = @ + 1]

\* model.compile(optimizer=SGD(...), ...)
Compile2 ==
    /\ train.pc = "unfreeze"
    /\ train.k \notin SliceFrom(train.layers, LAST_FROZEN_LAYER)
    /\ train' = [train EXCEPT !.pc = "fit2",
                              !.compiled = TrainableIndices(train.layers),
                              !.epoch = 0]

\* one epoch of history = model.fit_generator(train_gen, epochs=NUM_EPOCHS, ...)
Fit2Epoch ==
    /\ train.pc = "fit2"
    /\ train.epoch < NUM_EPOCHS
    /\ train' = [train EXCEPT !.epoch = @ + 1]

Fit2Return ==
    /\ train.pc = "fit2"
    /\ train.epoch = NUM_EPOCHS
    /\ train' = [train EXCEPT !.pc = "done"]

restOfTrain == <<splitVars, birdVars, batchVars, run, show, dl, dbp, tdf, vl>>

TrainInit ==
    /\ TrainStart
    /\ SplitIdle /\ BirdsIdle /\ BatchIdle
    /\ run = Unused /\ show = Unused /\ dl = Unused
    /\ dbp = Unused /\ tdf = Unused /\ vl = Unused

TrainNext ==
    \/ FreezeLayer /\ UNCHANGED restOfTrain
    \/ BuildHead /\ UNCHANGED restOfTrain
    \/ Compile1 /\ UNCHANGED restOfTrain
    \/ Fit1Epoch /\ UNCHANGED restOfTrain
    \/ Fit1Return /\ UNCHANGED restOfTrain
    \/ UnfreezeLayer /\ UNCHANGED restOfTrain
    \/ Compile2 /\ UNCHANGED restOfTrain
    \/ Fit2Epoch /\ UNCHANGED restOfTrain
    \/ Fit2Return /\ UNCHANGED restOfTrain

SpecTrain == TrainInit /\ [][TrainNext]_vars

-----------------------------------------------------------------------------
(* show_species of the birds notebook *)

\* the largest number of images of a species folder
MaxSpeciesImages == 14

NUM_COLS == 4

\* plt.subplots(nrows, ncols) with the default squeeze=True: the array of
\* axes has two dimensions only when both counts exceed one; a count of
\* zero is rejected
SubplotsRaises(nrows, ncols) == nrows < 1 \/ ncols < 1

SubplotsDims(nrows, ncols) ==
    IF nrows > 1 /\ ncols > 1 THEN 2
    ELSE IF nrows > 1 \/ ncols > 1 THEN 1
    ELSE 0

\* axarr[i, j] raises IndexError unless axarr has two dimensions and the
\* (never negative) indices are inside them
IndexRaises(dims, nrows, ncols, i, j) ==
    \/ dims # 2
    \/ i >= nrows
    \/ j >= ncols

\* NUM_ROWS = int(IM_COUNT / NUM_COLS), plus one when there is a remainder
NumRows(im_count) ==
    (im_count \div NUM_COLS) + (IF (im_count % NUM_COLS) > 0 THEN 1 ELSE 0)

ShowStart ==
    \E n \in 0..MaxSpeciesImages :
        show = [pc |-> "call",
                IM_COUNT |-> n,        \* len(_im_list)
                NUM_ROWS |-> 0,
                dims |-> 0,            \* number of dimensions of axarr
                curr_row |-> 0,
                curr_img |-> 0,
                drawn |-> <<>>]        \* per image drawn, its index into axarr

\* from the listing of the folder to the creation of the figure
ShowSubplots ==
    /\ show.pc = "call"
    /\ LET rows == NumRows(show.IM_COUNT) IN
        IF SubplotsRaises(rows, NUM_COLS)
        THEN show' = [show EXCEPT !.pc = "raised", !.NUM_ROWS = rows]
        ELSE show' = [show EXCEPT !.pc = "loop",
                                  !.NUM_ROWS = rows,
                                  !.dims = SubplotsDims(rows, NUM_COLS),
                                  !.curr_row = 0,
                                  !.curr_img = 0]

\* one iteration of for curr_img in range(IM_COUNT)
ShowImage ==
    /\ show.pc = "loop"
    /\ show.curr_img < show.IM_COUNT
    /\ LET col == show.curr_img % show.NUM_ROWS IN
        IF IndexRaises(show.dims, show.NUM_ROWS, NUM_COLS, col, show.curr_row)
        THEN show' = [show EXCEPT !.pc = "raised"]
        ELSE show' = [show EXCEPT
                        !.drawn = Append(@, <<col, show.curr_row>>),
                        !.curr_row = IF col = show.NUM_ROWS - 1
                                     THEN @ + 1 ELSE @,
                        !.curr_img = @ + 1]

\* the loop is over: the figure is shown and closed
ShowReturn ==
    /\ show.pc = "loop"
    /\ show.curr_img = show.IM_COUNT
    /\ show' = [show EXCEPT !.pc = "done"]

restOfShow == <<splitVars, birdVars, batchVars, run, train, dl, dbp, tdf, vl>>

ShowInit ==
    /\ ShowStart
    /\ SplitIdle /\ BirdsIdle /\ BatchIdle
    /\ run = Unused /\ train = Unused /\ dl = Unused
    /\ dbp = Unused /\ tdf = Unused /\ vl = Unused

ShowNext ==
    \/ ShowSubplots /\ UNCHANGED restOfShow
    \/ ShowImage /\ UNCHANGED restOfShow
    \/ ShowReturn /\ UNCHANGED restOfShow

SpecShow == ShowInit /\ [][ShowNext]_vars

-----------------------------------------------------------------------------
(* download of the birds notebook, and the cell that unpacks the archive *)

\* the largest number of cells (download calls, unpacking) run in a session
MaxCalls == 3

\* a URL is the sequence of the pieces url.split('/') yields: the notebook's
\* URL, a mirror of the same archive, and a URL that ends in a slash
Urls ==
    {<<"http:", "", "www.vision.caltech.edu", "visipedia-data",
       "CUB-200-2011", "CUB_200_2011.tgz">>,
     <<"http:", "", "mirror.example.org", "CUB_200_2011.tgz">>,
     <<"http:", "", "www.vision.caltech.edu", "visipedia-data", "">>}

\* the archive the unpacking cell reads and removes
Archive == "CUB_200_2011.tgz"

\* url.split('/')[-1]
LastSegment(url) == url[Len(url)]

ExistsNever(files, filename) == FALSE

\* os.path.exists(filename): the empty path never exists
Exists(files, filename) == filename # "" /\ filename \in files

\* how urllib.request.urlretrieve(url, filename) can end: "stored" (returns),
\* "refused" (urlopen raises, no file is opened), "short" (the file is
\* written, then ContentTooShortError is raised)
Outcomes == {"stored", "refused", "short"}

\* the working directory after urlretrieve: a non-empty filename is opened
\* for writing unless urlopen raised; an empty one makes urlretrieve write
\* to a temporary file outside the working directory
AfterRetrieve(files, filename, outcome) ==
    IF outcome # "refused" /\ filename # "" THEN files \cup {filename}
    ELSE files

DownloadStart ==
    \E fs \in SUBSET {Archive} :
        dl = [pc |-> "ready",
              files |-> fs,     \* the files of the working directory
              fetches |-> 0,    \* calls of urlretrieve so far
              log |-> <<>>]     \* the cells run so far, oldest first

\* download(url)
DownloadCall ==
    /\ dl.pc = "ready"
    /\ Len(dl.log) < MaxCalls
    /\ \E url \in Urls, outcome \in Outcomes :
        LET filename == LastSegment(url)
            fetch == ~Exists(dl.files, filename)
            after == IF fetch THEN AfterRetrieve(dl.files, filename, outcome)
                     ELSE dl.files
        IN dl' = [dl EXCEPT
                    !.files = after,
                    !.fetches = IF fetch THEN @ + 1 ELSE @,
                    !.log = Append(@, [cell |-> "download",
                                        url |-> url,
                                        existed |-> filename \in dl.files,
                                        fetched |-> fetch,
                                        raised |-> fetch /\ outcome # "stored",
                                        before |-> dl.files,
                                        after |-> after])]

\* the unpacking cell: gunzip | tar, then rm CUB_200_2011.tgz
Unpack ==
    /\ dl.pc = "ready"
    /\ Len(dl.log) < MaxCalls
    /\ dl' = [dl EXCEPT
                !.files = @ \ {Archive},
                !.log = Append(@, [cell |-> "unpack",
                                    url |-> <<>>,
                                    existed |-> Archive \in dl.files,
                                    fetched |-> FALSE,
                                    raised |-> FALSE,
                                    before |-> dl.files,
                                    after |-> dl.files \ {Archive}])]

restOfDownload ==
    <<splitVars, birdVars, batchVars, run, train, show, dbp, tdf, vl>>

DownloadInit ==
    /\ DownloadStart
    /\ SplitIdle /\ BirdsIdle /\ BatchIdle
    /\ run = Unused /\ train = Unused /\ show = Unused
    /\ dbp = Unused /\ tdf = Unused /\ vl = Unused

DownloadNext ==
    \/ DownloadCall /\ UNCHANGED restOfDownload
    \/ Unpack /\ UNCHANGED restOfDownload

SpecDownload == DownloadInit /\ [][DownloadNext]_vars

-----------------------------------------------------------------------------
(* The class_id replacement of the comprehend notebook *)

\* the largest number of rows of train.csv
MaxDbRows == 2

\* the class names of dbpedia_csv/classes.txt, one per line
DbpediaClasses ==
    <<"Company", "EducationalInstitution", "Artist", "Athlete",
      "OfficeHolder", "MeanOfTransportation", "Building", "NaturalPlace",
      "Village", "Animal", "Plant", "Album", "Film", "WrittenWork">>

\* f.readlines(): every line keeps its line end
ReadLines(names) == [i \in 1..Len(names) |-> [text |-> names[i], eol |-> "\n"]]

\* label.strip()
Strip(line) == line.text

IndexToLabelFromZero(lines) ==
    {<<Str(i - 1), Strip(lines[i])>> : i \in 1..Len(lines)}

\* for i, label in enumerate(f.readlines()):
\*     index_to_label[str(i+1)] = label.strip()
\* enumerate counts from 0, so the line at position i of 1..Len has index i-1
IndexToLabel(lines) ==
    {<<Str((i - 1) + 1), Strip(lines[i])>> : i \in 1..Len(lines)}

\* pd.read_csv(..., header=None) and db_df.columns = [...]
DbReadCsv(rows) ==
    [k \in 1..Len(rows) |-> [index |-> k - 1,
                             class_id |-> rows[k][1],
                             title |-> rows[k][2],
                             abstract |-> rows[k][3]]]

\* db_df.drop(['title'], axis=1, inplace=True)
DropTitle(d) ==
    [k \in 1..Len(d) |-> [index |-> d[k].index,
                          class_id |-> d[k].class_id,
                          abstract |-> d[k].abstract]]

\* db_df['class_id'] = db_df['class_id'].apply(str)
ApplyStr(d) == [k \in 1..Len(d) |-> [d[k] EXCEPT !.class_id = Str(@)]]

\* mapping[key] for a dict held as its set of <<key, value>> items
DictGet(mapping, key) == (CHOOSE p \in mapping : p[1] = key)[2]

\* db_df.replace({'class_id': mapping}): a value that is a key of the mapping
\* is replaced by the mapped value, any other value stays
Replace(d, mapping) ==
    [k \in 1..Len(d) |->
        IF \E p \in mapping : p[1] = d[k].class_id
        THEN [d[k] EXCEPT !.class_id = DictGet(mapping, d[k].class_id)]
        ELSE d[k]]

\* classes.txt holds the first n class names of the dataset, and every line
\* of train.csv carries a class id of 1..n, a title and an abstract
DbpStart ==
    \E n \in 1..Len(DbpediaClasses) :
        \E ids \in SeqsUpTo(1..n, MaxDbRows) :
            dbp = [pc |-> "classes",
                   classes_txt |-> SubSeq(DbpediaClasses, 1, n),
                   train_csv |-> [k \in 1..Len(ids) |->
                                     <<ids[k], "title", "abstract">>],
                   index_to_label |-> {},
                   db_df |-> <<>>]

DbpClasses ==
    /\ dbp.pc = "classes"
    /\ dbp' = [dbp EXCEPT
                 !.pc = "read",
                 !.index_to_label = IndexToLabel(ReadLines(dbp.classes_txt))]

DbpRead ==
    /\ dbp.pc = "read"
    /\ dbp' = [dbp EXCEPT !.pc = "drop", !.db_df = DbReadCsv(dbp.train_csv)]

DbpDrop ==
    /\ dbp.pc = "drop"
    /\ dbp' = [dbp EXCEPT !.pc = "replace", !.db_df = DropTitle(@)]

DbpReplace ==
    /\ dbp.pc = "replace"
    /\ dbp' = [dbp EXCEPT
                 !.pc = "replaced",
                 !.db_df = Replace(ApplyStr(@), dbp.index_to_label)]

restOfDbp == <<splitVars, birdVars, batchVars, run, train, show, dl, tdf, vl>>

DbpInit ==
    /\ DbpStart
    /\ SplitIdle /\ BirdsIdle /\ BatchIdle
    /\ run = Unused /\ train = Unused /\ show = Unused
    /\ dl = Unused /\ tdf = Unused /\ vl = Unused

DbpNext ==
    \/ DbpClasses /\ UNCHANGED restOfDbp
    \/ DbpRead /\ UNCHANGED restOfDbp
    \/ DbpDrop /\ UNCHANGED restOfDbp
    \/ DbpReplace /\ UNCHANGED restOfDbp

SpecDbpedia == DbpInit /\ [][DbpNext]_vars

-----------------------------------------------------------------------------
(* test_image_df of the birds notebook *)

\* the largest number of rows of the table passed to test_image_df
MaxTestRows == 3

\* the number of classes of the classifier: len(class_name_list)
TestClasses == 2

\* the class_id strings of a table the splitter returned: "1" .. "k"
TestClassIds == {Str(c) : c \in 1..TestClasses}

\* int(s) for the decimal string of a class id
ParseInt(s) == CHOOSE n \in 0..TestClasses : Str(n) = s

\* predict_bird_from_file returns argmax(model.predict(x)), an index into
\* class_name_list, whatever the image
Predictions == 0..(TestClasses - 1)

ErrorAlways(pred, act) == 1

\* if (pred != act): num_errors += 1
ErrorIncrement(pred, act) == IF pred # act THEN 1 ELSE 0

TestStart ==
    \E ids \in SeqsUpTo(TestClassIds, MaxTestRows) :
        tdf = [pc |-> "loop",
               df |-> [k \in 1..Len(ids) |->
                          [index |-> k - 1,
                           image_file_name |-> "image" \o Str(k) \o ".jpg",
                           class_id |-> ids[k]]],
               i |-> 0,             \* the next value of range(df.shape[0])
               num_errors |-> 0,
               preds |-> <<>>,
               acts |-> <<>>,
               fnames |-> <<>>,     \* the files predicted so far, in order
               ret |-> <<>>]        \* the returned triple

\* one iteration of for i in range(df.shape[0])
TestRow ==
    /\ tdf.pc = "loop"
    /\ tdf.i < Len(tdf.df)
    /\ \E pred \in Predictions :
        LET row == tdf.df[tdf.i + 1]
            act == ParseInt(row.class_id) - 1
        IN tdf' = [tdf EXCEPT
                     !.acts = Append(@, act),
                     !.preds = Append(@, pred),
                     !.fnames = Append(@, row.image_file_name),
                     !.num_errors = @ + ErrorIncrement(pred, act),
                     !.i = @ + 1]

\* return num_errors, preds, acts
TestReturn ==
    /\ tdf.pc = "loop"
    /\ tdf.i = Len(tdf.df)
    /\ tdf' = [tdf EXCEPT !.pc = "done",
                          !.ret = <<tdf.num_errors, tdf.preds, tdf.acts>>]

restOfTest == <<splitVars, birdVars, batchVars, run, train, show, dl, dbp, vl>>

TestInit ==
    /\ TestStart
    /\ SplitIdle /\ BirdsIdle /\ BatchIdle
    /\ run = Unused /\ train = Unused /\ show = Unused
    /\ dl = Unused /\ dbp = Unused /\ vl = Unused

TestNext ==
    \/ TestRow /\ UNCHANGED restOfTest
    \/ TestReturn /\ UNCHANGED restOfTest

SpecTest == TestInit /\ [][TestNext]_vars

-----------------------------------------------------------------------------
(* The validation prediction loop of the birds notebook *)

\* the largest number of validation images
MaxValImages == 33

BATCH_SIZE == 16

\* the batch sizes the loop is run with: the notebook's and smaller ones
BatchSizes == {1, 2, 3, BATCH_SIZE}

Min(a, b) == IF a < b THEN a ELSE b

Max(a, b) == IF a > b THEN a ELSE b

\* lst[lo:hi] = vals for a Python list: the bounds are clipped to the list
SliceAssign(lst, lo, hi, vals) ==
    LET from == Min(lo, Len(lst))
        to == Max(Min(hi, Len(lst)), from)
    IN  SubSeq(lst, 1, from) \o vals \o SubSeq(lst, to + 1, Len(lst))

\* the Keras iterator: the position in index_array where the batch starts ...
CurrentIndex(batch_index, batch_size, n) == (batch_index * batch_size) % n

\* ... the positions index_array[current_index : current_index + batch_size]
\* of the images of the batch (the last batch of an epoch may be short) ...
BatchPositions(current_index, batch_size, n) ==
    [j \in 1..(Min(current_index + batch_size, n) - current_index) |->
        current_index + j - 1]

\* ... and the batch index of the next batch: back to 0 after the last one
NextBatchIndex(batch_index, current_index, batch_size, n) ==
    IF n > current_index + batch_size THEN batch_index + 1 ELSE 0

ValStart ==
    \E n \in 1..MaxValImages, b \in BatchSizes :
        vl = [pc |-> "loop",
              num_val_images |-> n,
              batch_size |-> b,
              i |-> 0,
              predictions |-> <<>>,   \* per prediction, the image's position
              batch_index |-> 0,      \* val_gen.reset()
              batches |-> 0,          \* calls of model.predict
              message |-> <<>>]       \* the three numbers printed

\* one iteration of for inputs_batch, labels_batch in val_gen, without break
\* or with it, followed by the print
ValBatch ==
    /\ vl.pc = "loop"
    /\ LET n == vl.num_val_images
           b == vl.batch_size
           current_index == CurrentIndex(vl.batch_index, b, n)
           preds == BatchPositions(current_index, b, n)
           i == vl.i + 1
           stop == i * b > n
       IN vl' = [vl EXCEPT
                   !.predictions = SliceAssign(@, vl.i * b, (vl.i + 1) * b, preds),
                   !.batch_index = NextBatchIndex(@, current_index, b, n),
                   !.batches = @ + 1,
                   !.i = i,
                   !.pc = IF stop THEN "done" ELSE "loop",
                   !.message = IF stop THEN <<i - 1, b, (i - 1) * b>> ELSE @]

restOfVal == <<splitVars, birdVars, batchVars, run, train, show, dl, dbp, tdf>>

ValInit ==
    /\ ValStart
    /\ SplitIdle /\ BirdsIdle /\ BatchIdle
    /\ run = Unused /\ train = Unused /\ show = Unused
    /\ dl = Unused /\ dbp = Unused /\ tdf = Unused

ValNext == ValBatch /\ UNCHANGED restOfVal

SpecVal == ValInit /\ [][ValNext]_vars

-----------------------------------------------------------------------------
(* Properties of split_to_train_val_test, checked under SpecSplit *)

RowsOf(d) == {d[k].row : k \in 1..Len(d)}

CountWhere(d, col, v) == Cardinality({k \in 1..Len(d) : d[k][col] = v})

\* C1: whatever the table and whatever the sampling draws, the three returned
\* partitions are pairwise disjoint: no input row is in two of them.
C1_PartitionsDisjoint ==
    split_pc = "done" =>
        /\ RowsOf(split_ret[1]) \cap RowsOf(split_ret[2]) = {}
        /\ RowsOf(split_ret[1]) \cap RowsOf(split_ret[3]) = {}
        /\ RowsOf(split_ret[2]) \cap RowsOf(split_ret[3]) = {}

\* a split of a table with a repeated index label has returned rows in two
\* partitions
C1_Witness ==
    /\ split_pc = "done"
    /\ Cardinality({p \in 1..3 : split_ret[p] # <<>>}) >= 2
    /\ \E a, b \in 1..Len(df) : a # b /\ df[a].index = df[b].index

\* C2: every input row is in exactly one returned partition, unique index
\* labels or not, so the three sizes sum to the number of input rows.
C2_PartitionsCover ==
    split_pc = "done" =>
        /\ Len(split_ret[1]) + Len(split_ret[2]) + Len(split_ret[3]) = Len(df)
        /\ \A r \in 1..Len(df) :
              Cardinality({<<p, k>> \in (1..3) \X (1..Len(df)) :
                  k <= Len(split_ret[p]) /\ split_ret[p][k].row = r}) = 1

\* C3: per class of n rows, train gets round(r0*n) rows, test gets
\* round(r2/(r1+r2) * (n - train)) rows and validation gets the rest, whatever
\* rows the sampling picks.
C3_StratifiedSizes ==
    split_pc = "done" =>
        \A lbl \in LabelValues :
            LET n == CountWhere(df, "label", lbl)
                n_train == PyRound(splits[1] * n, 10)
                n_test == PyRound(splits[3] * (n - n_train), splits[2] + splits[3])
            IN  /\ CountWhere(split_ret[1], "label", lbl) = n_train
                /\ CountWhere(split_ret[3], "label", lbl) = n_test
                /\ CountWhere(split_ret[2], "label", lbl) = n - n_train - n_test

-----------------------------------------------------------------------------
(* Properties of get_train_val_dataframes, checked under SpecBirds *)

\* the rows of the three returned partitions
ReturnedRows == Range(birds_ret[1]) \cup Range(birds_ret[2]) \cup Range(birds_ret[3])

\* the lines of the image list that are not excluded and, when SAMPLE_ONLY,
\* whose species is one of the handful: read off the vendor files
KeptLines ==
    {k \in 1..Len(image_file) :
        /\ image_file[k].image_file_name \notin EXCLUDE_IMAGE_LIST
        /\ SAMPLE_ONLY => label_file[k].orig_class_id \in {13, 17}}

\* C4: every returned row's class_id is one of the strings "1".."k", k the
\* number of distinct original class ids left after filtering.
C4_ClassIdsKnown ==
    birds_pc = "done" =>
        LET k == Cardinality({label_file[j].orig_class_id : j \in KeptLines})
        IN  \A r \in ReturnedRows : r.class_id \in {Str(i) : i \in 1..k}

\* a returned row is labelled "2": two species were left after filtering
C4_Witness ==
    /\ birds_pc = "done"
    /\ \E r \in ReturnedRows : r.class_id = "2"

\* C5: no image whose file name is in EXCLUDE_IMAGE_LIST is in a returned
\* partition.
C5_ExcludedAbsent ==
    birds_pc = "done" =>
        \A r \in ReturnedRows : r.image_file_name \notin EXCLUDE_IMAGE_LIST

\* the image list named an excluded image of a species that is kept, and rows
\* were returned
C5_Witness ==
    /\ birds_pc = "done"
    /\ ~SAMPLE_ONLY
    /\ \E k \in 1..Len(image_file) :
          image_file[k].image_file_name \in EXCLUDE_IMAGE_LIST
    /\ ReturnedRows # {}

\* C6: with SAMPLE_ONLY every returned row's species is in CLASSES; without
\* it CLASSES is exactly 1..200 and the rows of every species are kept.
C6_SampleOnly ==
    birds_pc = "done" =>
        /\ SAMPLE_ONLY =>
              \A r \in ReturnedRows : r.orig_class_id \in Range(CLASSES(SAMPLE_ONLY))
        /\ ~SAMPLE_ONLY =>
              /\ Range(CLASSES(SAMPLE_ONLY)) = 1..200
              /\ Len(CLASSES(SAMPLE_ONLY)) = 200
              /\ \A c \in 1..200 :
                    CountWhere(birds_ret[1], "orig_class_id", c)
                    + CountWhere(birds_ret[2], "orig_class_id", c)
                    + CountWhere(birds_ret[3], "orig_class_id", c)
                    = Cardinality({k \in KeptLines : label_file[k].orig_class_id = c})

\* with SAMPLE_ONLY, a line of another species was in the files and rows were
\* returned
C6_Witness ==
    /\ birds_pc = "done"
    /\ SAMPLE_ONLY
    /\ \E k \in 1..Len(image_file) :
          /\ image_file[k].image_file_name \notin EXCLUDE_IMAGE_LIST
          /\ label_file[k].orig_class_id = 87
    /\ ReturnedRows # {}

-----------------------------------------------------------------------------
(* Properties of the batch result aggregation loop, checked under SpecBatch *)

\* the causes of an exception the loop is documented to skip
ListedCause(e, cnl) ==
    \/ e.path[2] \notin Range(cnl)
    \/ ~e.content.json
    \/ "predictions" \notin DOMAIN e.content.obj
    \/ /\ Flatten(e.content.obj.predictions) # <<>>
       /\ ArgMax(Results(e.content.obj)) >= Len(cnl)

\* C7: an iteration whose entry raises leaves total, correct, predicted and
\* actual as they were and the loop goes on; each listed cause does raise.
C7_RaisingEntrySkipped ==
    [][ (batch_pc = "loop" /\ remaining' # remaining) =>
          /\ ListedCause(entry', class_name_list) => printed' # printed
          /\ printed' # printed =>
                /\ UNCHANGED <<total, correct, predicted, actual>>
                /\ remaining' = remaining - 1
                /\ batch_pc' = "loop" ]_vars

\* an entry whose argmax is outside class_name_list was skipped after another
\* entry had been tallied
C7_Witness ==
    /\ total = 1
    /\ Len(visited) = 2
    /\ visited[2].raised
    /\ entry.path[2] \in Range(class_name_list)
    /\ entry.content.json
    /\ "predictions" \in DOMAIN entry.content.obj
    /\ Flatten(entry.content.obj.predictions) # <<>>
    /\ ArgMax(Results(entry.content.obj)) >= Len(class_name_list)

\* C8: for a parsed result file the class recorded in predicted has the
\* highest probability of the file's predictions, near-ties included.
C8_PredictedIsHighest ==
    (visited # <<>> /\ ~visited[Len(visited)].raised) =>
        LET raw == Flatten(entry.content.obj.predictions)
        IN  \A k \in 1..Len(raw) : raw[k] <= raw[predicted[Len(predicted)] + 1]

\* C9: after the loop, total is the number of entries processed without an
\* exception and correct the number of those whose predicted class name is
\* the name of the entry's class subfolder.
C9_TotalsCount ==
    batch_pc = "done" =>
        LET ok == SelectSeq(visited, LAMBDA v : ~v.raised)
        IN  /\ Len(visited) = found
            /\ total = Len(ok)
            /\ Len(predicted) = Len(ok)
            /\ correct = Cardinality({k \in 1..Len(ok) :
                   class_name_list[predicted[k] + 1] = ok[k].label})

\* the loop has ended after a correct entry and a wrong one
C9_Witness ==
    /\ batch_pc = "done"
    /\ total = 2
    /\ correct = 1

\* C10: every value in actual and in predicted is a valid index into
\* class_name_list.
C10_IndicesValid ==
    /\ \A k \in 1..Len(actual) : actual[k] \in 0..(Len(class_name_list) - 1)
    /\ \A k \in 1..Len(predicted) : predicted[k] \in 0..(Len(class_name_list) - 1)

\* the last class of class_name_list was recorded as actual and as predicted
C10_Witness ==
    /\ actual # <<>>
    /\ actual[Len(actual)] = Len(class_name_list) - 1
    /\ predicted[Len(predicted)] = Len(class_name_list) - 1

-----------------------------------------------------------------------------
(* Properties of a run of the batch notebook, checked under SpecRun *)

Launch == run.job = "none" /\ run'.job = "InProgress"

HoldsNoResult(folder) == \A k \in ResultKeys : folder[k] = "none"

C13_OneJobAwaited ==
    /\ run.submitted <= 1
    /\ run.pc \in {"wait", "download", "aggregate", "done", "failed"}
           => run.submitted = 1
    /\ run.pc \in {"download", "aggregate", "done"} => run.job = "Completed"

C13_Witness ==
    /\ run.pc = "aggregate"
    /\ run.job = "Completed"
    /\ run.submitted = 1

-----------------------------------------------------------------------------
(* Properties of the fine-tuning cells, checked under SpecTrain *)

LayerIndices == 0..(Len(train.layers) - 1)

PartIndices(part) == {i \in LayerIndices : train.layers[i + 1].part = part}

Fitting == train.pc \in {"fit1", "fit2"}

\* layer i is trained by the running fit: its flag is set and the compiled
\* model updates it
IsTrained(i) == train.layers[i + 1].trainable /\ i \in train.compiled

IsFrozen(i) == ~train.layers[i + 1].trainable /\ i \notin train.compiled

\* C14 (as stated): during both fit_generator calls only the layers of the new
\* head are trainable and every layer of the base network is frozen.
C14_OnlyHeadTrained ==
    Fitting =>
        /\ \A i \in PartIndices("head") : IsTrained(i)
        /\ \A i \in PartIndices("base") : IsFrozen(i)

\* C14 (amended): during the first fit_generator call only the layers of the
\* new head are trainable and every base layer is frozen; during the second
\* call the base layers with index LAST_FROZEN_LAYER or more are trainable too
\* and only the base layers below that index are frozen.
C14_OnlyHeadTrainedAtFirst ==
    /\ train.pc = "fit1" =>
        /\ \A i \in PartIndices("head") : IsTrained(i)
        /\ \A i \in PartIndices("base") : IsFrozen(i)
    /\ train.pc = "fit2" =>
        /\ \A i \in PartIndices("head") : IsTrained(i)
        /\ \A i \in PartIndices("base") :
              IF i < LAST_FROZEN_LAYER THEN IsFrozen(i) ELSE IsTrained(i)

C14_Witness ==
    /\ train.pc = "fit1"
    /\ train.epoch = INITIAL_EPOCHS
    /\ train.dropout # 0
    /\ Len(train.fc_layers) = 1
    /\ train.compiled = PartIndices("head")
    /\ Cardinality(train.compiled) = 4

\* the flags of the layers present before and after a step are never cleared
\* once the first compile has been reached
NoRefreeze ==
    train.pc # "freeze" =>
        \A i \in LayerIndices :
            train.layers[i + 1].trainable => train'.layers[i + 1].trainable

\* C20 (as stated): layers with index below LAST_FROZEN_LAYER are non-trainable
\* during both phases, every layer from that index on is non-trainable until
\* the initial phase has finished, and no layer is re-frozen afterwards.
C20_FrozenBelowThawedLater ==
    [][/\ train'.pc \in {"fit1", "fit2"} =>
            \A i \in 0..(LAST_FROZEN_LAYER - 1) :
                ~train'.layers[i + 1].trainable /\ i \notin train'.compiled
       /\ train'.pc = "fit1" =>
            \A i \in SliceFrom(train'.layers, LAST_FROZEN_LAYER) :
                ~train'.layers[i + 1].trainable /\ i \notin train'.compiled
       /\ NoRefreeze]_vars

\* C20 (amended): layers with index below LAST_FROZEN_LAYER are non-trainable
\* during both phases, every base-network layer from that index on is
\* non-trainable until the initial phase has finished and trainable in the
\* second phase, and no layer is re-frozen afterwards; the head layers are
\* trainable in both phases.
C20_FrozenBelowBaseThawedLater ==
    [][/\ train'.pc \in {"fit1", "fit2"} =>
            \A i \in 0..(LAST_FROZEN_LAYER - 1) :
                ~train'.layers[i + 1].trainable /\ i \notin train'.compiled
       /\ train'.pc = "fit1" =>
            \A i \in SliceFrom(train'.layers, LAST_FROZEN_LAYER) :
                IF train'.layers[i + 1].part = "base"
                THEN ~train'.layers[i + 1].trainable /\ i \notin train'.compiled
                ELSE train'.layers[i + 1].trainable /\ i \in train'.compiled
       /\ train'.pc = "fit2" =>
            \A i \in SliceFrom(train'.layers, LAST_FROZEN_LAYER) :
                train'.layers[i + 1].trainable /\ i \in train'.compiled
       /\ NoRefreeze]_vars

C20_Witness ==
    /\ train.pc = "fit2"
    /\ train.epoch = NUM_EPOCHS
    /\ train.layers[LAST_FROZEN_LAYER + 1].part = "base"
    /\ LAST_FROZEN_LAYER \in train.compiled
    /\ (LAST_FROZEN_LAYER - 1) \notin train.compiled

-----------------------------------------------------------------------------
(* Properties of show_species, checked under SpecShow *)

\* C15: for every species folder with at least one image, when show_species
\* ends every image index 0..IM_COUNT-1 has been drawn at a position inside
\* the NUM_ROWS x NUM_COLS grid and no two images share a position.
C15_AllImagesPlaced ==
    (show.pc \in {"done", "raised"} /\ show.IM_COUNT >= 1) =>
        /\ Len(show.drawn) = show.IM_COUNT
        /\ \A k \in 1..Len(show.drawn) :
              /\ show.drawn[k][1] \in 0..(show.NUM_ROWS - 1)
              /\ show.drawn[k][2] \in 0..(NUM_COLS - 1)
        /\ \A k, l \in 1..Len(show.drawn) :
              k # l => show.drawn[k] # show.drawn[l]

-----------------------------------------------------------------------------
(* Properties of download, checked under SpecDownload *)

DownloadCells == {k \in 1..Len(dl.log) : dl.log[k].cell = "download"}

\* two download calls with the same URL and no other cell between them
ConsecutivePairs ==
    {k \in DownloadCells : /\ k + 1 \in DownloadCells
                           /\ dl.log[k + 1].url = dl.log[k].url}

FetchesOf(k) == IF dl.log[k].fetched THEN 1 ELSE 0

\* a call fetches only when no file of the name exists, and a call made while
\* the file exists changes nothing
FetchOnlyWhenAbsent ==
    \A k \in DownloadCells :
        /\ dl.log[k].fetched => ~dl.log[k].existed
        /\ dl.log[k].existed =>
              ~dl.log[k].fetched /\ dl.log[k].after = dl.log[k].before

\* C16 (as stated): download fetches only when no local file named by the
\* URL's last segment exists, a call made while the file exists changes
\* nothing, and two consecutive calls with the same URL fetch at most once.
C16_FetchAtMostOnce ==
    /\ FetchOnlyWhenAbsent
    /\ \A k \in ConsecutivePairs : FetchesOf(k) + FetchesOf(k + 1) <= 1

\* C16 (amended): download fetches only when no local file named by the URL's
\* last segment exists, a call made while the file exists changes nothing,
\* and two consecutive calls with the same URL fetch at most once when the
\* file named by the last segment exists after the first call; when it does
\* not (the last segment is empty, or the first fetch failed before the file
\* was created) both calls fetch.
C16_FetchAtMostOnceIfStored ==
    /\ FetchOnlyWhenAbsent
    /\ \A k \in ConsecutivePairs :
          IF /\ LastSegment(dl.log[k].url) # ""
             /\ LastSegment(dl.log[k].url) \in dl.log[k].after
          THEN FetchesOf(k) + FetchesOf(k + 1) <= 1
          ELSE FetchesOf(k) + FetchesOf(k + 1) = 2

C16_Witness ==
    /\ Len(dl.log) = 2
    /\ 1 \in ConsecutivePairs
    /\ LastSegment(dl.log[1].url) = Archive
    /\ dl.log[1].fetched /\ ~dl.log[1].raised
    /\ ~dl.log[2].fetched
    /\ dl.fetches = 1

-----------------------------------------------------------------------------
(* Properties of the class_id replacement, checked under SpecDbpedia *)

\* C17: after the replacement the table has one row per line of train.csv,
\* and the class_id of the row of a line with numeric id i is the name on
\* line i of classes.txt.
C17_ClassIdIsName ==
    dbp.pc = "replaced" =>
        /\ Len(dbp.db_df) = Len(dbp.train_csv)
        /\ \A k \in 1..Len(dbp.db_df) :
              /\ dbp.db_df[k].class_id \in Range(dbp.classes_txt)
              /\ dbp.db_df[k].class_id = dbp.classes_txt[dbp.train_csv[k][1]]

C17_Witness ==
    /\ dbp.pc = "replaced"
    /\ Len(dbp.db_df) = 2
    /\ dbp.train_csv[1][1] = 1
    /\ dbp.train_csv[2][1] = 10
    /\ dbp.db_df[1].class_id = "Company"
    /\ dbp.db_df[2].class_id = "Animal"

-----------------------------------------------------------------------------
(* Properties of test_image_df, checked under SpecTest *)

\* C18: test_image_df predicts every row of df once, in order, and returns
\* (num_errors, preds, acts) where preds and acts have one entry per row,
\* acts[i] is the row's class id minus one, and num_errors is the number of
\* positions where preds and acts differ, between 0 and the number of rows.
C18_ErrorsCounted ==
    tdf.pc = "done" =>
        LET num_errors == tdf.ret[1]
            preds == tdf.ret[2]
            acts == tdf.ret[3]
            n == Len(tdf.df)
        IN  /\ tdf.fnames = [k \in 1..n |-> tdf.df[k].image_file_name]
            /\ Len(preds) = n
            /\ Len(acts) = n
            /\ \A k \in 1..n : Str(acts[k] + 1) = tdf.df[k].class_id
            /\ num_errors = Cardinality({k \in 1..n : preds[k] # acts[k]})
            /\ 0 <= num_errors /\ num_errors <= n

C18_Witness ==
    /\ tdf.pc = "done"
    /\ Len(tdf.df) = 3
    /\ tdf.ret[1] = 2
    /\ tdf.ret[2][1] = tdf.ret[3][1]
    /\ tdf.ret[2][2] # tdf.ret[3][2]
    /\ tdf.ret[2][3] # tdf.ret[3][3]

-----------------------------------------------------------------------------
(* Properties of the validation prediction loop, checked under SpecVal *)

\* C19: the message printed after the loop reports the number of batches that
\* were predicted and a total equal to the number of predictions collected.
C19_MessageMatchesLoop ==
    vl.pc = "done" =>
        /\ vl.message[1] = vl.batches
        /\ vl.message[3] = Len(vl.predictions)

====
